---- MODULE Spec2Model ----
(***************************************************************************)
(* Voice-orb audio conditioning and render synchronisation:                *)
(*   hooks/useAudioLevel.ts      capture sessions, calibration, gate,      *)
(*                               curve, smoothing, start/stop              *)
(*   components/ReactiveOrb.tsx  GL surface, render loop, interpolator     *)
(*   App.tsx                     the mic-toggle effect driving the hook    *)
(*                                                                         *)
(* Numbers.  A JavaScript number in [0,1] is a fixed-point integer with    *)
(* unit Scale (Scale stands for 1.0), every arithmetic result rounded to   *)
(* the nearest unit.  NaN is a value of its own and propagates the way     *)
(* IEEE 754 propagates it (every comparison with NaN is false).            *)
(* Time.  Date.now() is the variable now, in milliseconds; it advances by  *)
(* FrameMs at each animation frame and never goes back.                    *)
(***************************************************************************)
EXTENDS Integers, Sequences, FiniteSets, TLC

\* ---------------------------------------------------------------- bounds
MaxSessions == 2
MaxCalls == 2
MaxFrames == 3
MaxSurfaces == 2
FrameMs == 250
MaxSamples == 40

\* ------------------------------------------------------------- numbers
Scale == 600
NaN == -1

IsNaN(x) == x = NaN

Max2(a, b) == IF a >= b THEN a ELSE b
Min2(a, b) == IF a <= b THEN a ELSE b

\* Math.max(...xs) of a non-empty collection
MaxOf(S) == CHOOSE x \in S : \A y \in S : y <= x

\* round-to-nearest of n / d, d > 0 (floor of (2n + d) / 2d)
RoundDiv(n, d) == (2 * n + d) \div (2 * d)

\* Math.pow(x, 0.7) for x = g / Scale, g in 1..Scale, in units of Scale
Pow07Table ==
    <<
       7, 11, 15, 18, 21, 24, 27, 29, 32, 34, 37, 39, 41, 43, 45, 47, 50, 52, 54, 55, 57, 59,
       61, 63, 65, 67, 68, 70, 72, 74, 75, 77, 79, 80, 82, 84, 85, 87, 89, 90, 92, 93, 95, 96,
       98, 99, 101, 102, 104, 105, 107, 108, 110, 111, 113, 114, 115, 117, 118, 120, 121, 122,
       124, 125, 127, 128, 129, 131, 132, 133, 135, 136, 137, 139, 140, 141, 143, 144, 145,
       146, 148, 149, 150, 152, 153, 154, 155, 157, 158, 159, 160, 161, 163, 164, 165, 166,
       168, 169, 170, 171, 172, 174, 175, 176, 177, 178, 179, 181, 182, 183, 184, 185, 186,
       188, 189, 190, 191, 192, 193, 194, 196, 197, 198, 199, 200, 201, 202, 203, 205, 206,
       207, 208, 209, 210, 211, 212, 213, 214, 216, 217, 218, 219, 220, 221, 222, 223, 224,
       225, 226, 227, 228, 229, 231, 232, 233, 234, 235, 236, 237, 238, 239, 240, 241, 242,
       243, 244, 245, 246, 247, 248, 249, 250, 251, 252, 253, 254, 255, 256, 257, 258, 259,
       260, 261, 262, 263, 264, 265, 266, 267, 268, 269, 270, 271, 272, 273, 274, 275, 276,
       277, 278, 279, 280, 281, 282, 283, 284, 285, 286, 287, 288, 289, 290, 291, 292, 293,
       293, 294, 295, 296, 297, 298, 299, 300, 301, 302, 303, 304, 305, 306, 307, 308, 309,
       309, 310, 311, 312, 313, 314, 315, 316, 317, 318, 319, 320, 321, 321, 322, 323, 324,
       325, 326, 327, 328, 329, 330, 331, 331, 332, 333, 334, 335, 336, 337, 338, 339, 340,
       340, 341, 342, 343, 344, 345, 346, 347, 348, 348, 349, 350, 351, 352, 353, 354, 355,
       355, 356, 357, 358, 359, 360, 361, 362, 362, 363, 364, 365, 366, 367, 368, 368, 369,
       370, 371, 372, 373, 374, 374, 375, 376, 377, 378, 379, 380, 380, 381, 382, 383, 384,
       385, 386, 386, 387, 388, 389, 390, 391, 391, 392, 393, 394, 395, 396, 396, 397, 398,
       399, 400, 401, 402, 402, 403, 404, 405, 406, 406, 407, 408, 409, 410, 411, 411, 412,
       413, 414, 415, 416, 416, 417, 418, 419, 420, 420, 421, 422, 423, 424, 425, 425, 426,
       427, 428, 429, 429, 430, 431, 432, 433, 433, 434, 435, 436, 437, 437, 438, 439, 440,
       441, 441, 442, 443, 444, 445, 445, 446, 447, 448, 449, 449, 450, 451, 452, 453, 453,
       454, 455, 456, 456, 457, 458, 459, 460, 460, 461, 462, 463, 464, 464, 465, 466, 467,
       467, 468, 469, 470, 471, 471, 472, 473, 474, 474, 475, 476, 477, 478, 478, 479, 480,
       481, 481, 482, 483, 484, 484, 485, 486, 487, 488, 488, 489, 490, 491, 491, 492, 493,
       494, 494, 495, 496, 497, 497, 498, 499, 500, 500, 501, 502, 503, 503, 504, 505, 506,
       506, 507, 508, 509, 509, 510, 511, 512, 512, 513, 514, 515, 515, 516, 517, 518, 518,
       519, 520, 521, 521, 522, 523, 524, 524, 525, 526, 527, 527, 528, 529, 530, 530, 531,
       532, 533, 533, 534, 535, 535, 536, 537, 538, 538, 539, 540, 541, 541, 542, 543, 544,
       544, 545, 546, 546, 547, 548, 549, 549, 550, 551, 552, 552, 553, 554, 554, 555, 556,
       557, 557, 558, 559, 560, 560, 561, 562, 562, 563, 564, 565, 565, 566, 567, 567, 568,
       569, 570, 570, 571, 572, 572, 573, 574, 575, 575, 576, 577, 577, 578, 579, 580, 580,
       581, 582, 582, 583, 584, 585, 585, 586, 587, 587, 588, 589, 589, 590, 591, 592, 592,
       593, 594, 594, 595, 596, 596, 597, 598, 599, 599, 600    >>

\* Math.pow(x, 0.6) for x = g / Scale, g in 1..Scale, in units of Scale
Pow06Table ==
    <<
       13, 20, 25, 30, 34, 38, 42, 45, 48, 51, 54, 57, 60, 63, 66, 68, 71, 73, 76, 78, 80, 83,
       85, 87, 89, 91, 93, 95, 97, 99, 101, 103, 105, 107, 109, 111, 113, 115, 116, 118, 120,
       122, 123, 125, 127, 129, 130, 132, 133, 135, 137, 138, 140, 141, 143, 145, 146, 148,
       149, 151, 152, 154, 155, 157, 158, 160, 161, 162, 164, 165, 167, 168, 170, 171, 172,
       174, 175, 176, 178, 179, 180, 182, 183, 184, 186, 187, 188, 190, 191, 192, 194, 195,
       196, 197, 199, 200, 201, 202, 204, 205, 206, 207, 208, 210, 211, 212, 213, 214, 216,
       217, 218, 219, 220, 222, 223, 224, 225, 226, 227, 228, 230, 231, 232, 233, 234, 235,
       236, 237, 239, 240, 241, 242, 243, 244, 245, 246, 247, 248, 249, 251, 252, 253, 254,
       255, 256, 257, 258, 259, 260, 261, 262, 263, 264, 265, 266, 267, 268, 269, 270, 271,
       272, 274, 275, 276, 277, 278, 279, 280, 281, 282, 283, 284, 285, 285, 286, 287, 288,
       289, 290, 291, 292, 293, 294, 295, 296, 297, 298, 299, 300, 301, 302, 303, 304, 305,
       306, 307, 308, 309, 309, 310, 311, 312, 313, 314, 315, 316, 317, 318, 319, 320, 321,
       321, 322, 323, 324, 325, 326, 327, 328, 329, 330, 330, 331, 332, 333, 334, 335, 336,
       337, 338, 338, 339, 340, 341, 342, 343, 344, 345, 345, 346, 347, 348, 349, 350, 351,
       351, 352, 353, 354, 355, 356, 357, 357, 358, 359, 360, 361, 362, 362, 363, 364, 365,
       366, 367, 367, 368, 369, 370, 371, 372, 372, 373, 374, 375, 376, 377, 377, 378, 379,
       380, 381, 381, 382, 383, 384, 385, 385, 386, 387, 388, 389, 389, 390, 391, 392, 393,
       393, 394, 395, 396, 397, 397, 398, 399, 400, 401, 401, 402, 403, 404, 404, 405, 406,
       407, 408, 408, 409, 410, 411, 411, 412, 413, 414, 415, 415, 416, 417, 418, 418, 419,
       420, 421, 421, 422, 423, 424, 424, 425, 426, 427, 427, 428, 429, 430, 430, 431, 432,
       433, 433, 434, 435, 436, 436, 437, 438, 439, 439, 440, 441, 442, 442, 443, 444, 445,
       445, 446, 447, 447, 448, 449, 450, 450, 451, 452, 453, 453, 454, 455, 455, 456, 457,
       458, 458, 459, 460, 460, 461, 462, 463, 463, 464, 465, 465, 466, 467, 468, 468, 469,
       470, 470, 471, 472, 473, 473, 474, 475, 475, 476, 477, 477, 478, 479, 480, 480, 481,
       482, 482, 483, 484, 484, 485, 486, 486, 487, 488, 489, 489, 490, 491, 491, 492, 493,
       493, 494, 495, 495, 496, 497, 497, 498, 499, 499, 500, 501, 502, 502, 503, 504, 504,
       505, 506, 506, 507, 508, 508, 509, 510, 510, 511, 512, 512, 513, 514, 514, 515, 516,
       516, 517, 518, 518, 519, 520, 520, 521, 522, 522, 523, 524, 524, 525, 525, 526, 527,
       527, 528, 529, 529, 530, 531, 531, 532, 533, 533, 534, 535, 535, 536, 537, 537, 538,
       538, 539, 540, 540, 541, 542, 542, 543, 544, 544, 545, 546, 546, 547, 547, 548, 549,
       549, 550, 551, 551, 552, 553, 553, 554, 554, 555, 556, 556, 557, 558, 558, 559, 559,
       560, 561, 561, 562, 563, 563, 564, 564, 565, 566, 566, 567, 568, 568, 569, 569, 570,
       571, 571, 572, 573, 573, 574, 574, 575, 576, 576, 577, 578, 578, 579, 579, 580, 581,
       581, 582, 582, 583, 584, 584, 585, 585, 586, 587, 587, 588, 589, 589, 590, 590, 591,
       592, 592, 593, 593, 594, 595, 595, 596, 596, 597, 598, 598, 599, 599, 600    >>

Pow07(g) == IF IsNaN(g) THEN NaN ELSE IF g <= 0 THEN 0 ELSE Pow07Table[g]
Pow06(g) == IF IsNaN(g) THEN NaN ELSE IF g <= 0 THEN 0 ELSE Pow06Table[g]

\* const calibrationDuration = 500
CalibrationDuration == 500
\* useRef(0.05)
InitialNoiseFloor == (5 * Scale) \div 100

\* Math.max(...calibrationSamples) * 1.2
CalibratedFloor(samples) == RoundDiv(MaxOf(samples) * 12, 10)

\* a gate that subtracts the floor and does not rescale
NoiseGateUnscaled(raw, noiseFloor) == Max2(0, raw - noiseFloor)

\* Math.max(0, rawNormalized - noiseFloor) / (1 - noiseFloor)
\*   1 - noiseFloor = 0: raw <= 1 makes the numerator 0, and 0 / 0 is NaN
\*   1 - noiseFloor < 0: the numerator is 0, and 0 / negative is -0
NoiseGate(raw, noiseFloor) ==
    LET num == Max2(0, raw - noiseFloor)
        den == Scale - noiseFloor
    IN  IF den = 0 THEN NaN
        ELSE IF den < 0 THEN 0
        ELSE RoundDiv(num * Scale, den)

\* Math.min(1, Math.pow(gated, 0.7) * 2.0); Math.min(1, NaN) is NaN
WebCurve(gated) ==
    LET curved == IF IsNaN(gated) THEN NaN ELSE Pow07(gated) * 2
    IN  IF IsNaN(curved) THEN NaN ELSE Min2(Scale, curved)

\* a smoothing with the release coefficient in both directions
SmoothSymmetric(currentSmoothed, target) ==
    IF IsNaN(currentSmoothed) \/ IsNaN(target) THEN NaN
    ELSE currentSmoothed + RoundDiv((target - currentSmoothed) * 8, 100)

\* currentSmoothed + (target - currentSmoothed) * (target > currentSmoothed ? 0.3 : 0.08)
Smooth(currentSmoothed, target) ==
    IF IsNaN(currentSmoothed) \/ IsNaN(target) THEN NaN
    ELSE LET smoothingFactor == IF target > currentSmoothed THEN 30 ELSE 8
         IN  currentSmoothed + RoundDiv((target - currentSmoothed) * smoothingFactor, 100)

\* a publication that snaps every level to zero
SnapAlways(smoothed) == 0

\* a publication without the snap
SnapNever(smoothed) == smoothed

\* smoothed < 0.02 ? 0 : smoothed   (NaN < 0.02 is false)
SnapToZero(smoothed) ==
    IF IsNaN(smoothed) THEN NaN
    ELSE IF smoothed * 100 < 2 * Scale THEN 0 ELSE smoothed

\* ---------------------------------------------------------------- state
VARIABLES
    isWeb,              \* Platform.OS === 'web'
    micAllowed,         \* environment: whether the user/OS grants the microphone
    rawInputs,          \* environment: the raw samples the microphone can deliver
    rawNormalized,      \* environment: rms / 255 of the analyser's bins at this instant
    meteringInputs,     \* environment: the metering values the recorder can report, dB
    metering,           \* environment: status.metering of the last status update, dB
    now,                \* Date.now(), ms
    hasPermission,      \* useState<boolean | null>(null): "null", "true", "false"
    error,              \* useState<string | null>(null)
    isRecording,        \* useState(false)
    audioLevel,         \* useState(0)
    smoothedLevelRef,   \* useRef(0)
    noiseFloorRef,      \* useRef(0.05)
    streamRef,          \* web refs: 0 is null, s > 0 the object of session s
    audioContextRef,
    analyserRef,
    sourceRef,
    dataArrayRef,
    webAnimationRef,    \* 0 is null, s > 0 the handle last returned to session s's loop
    session,            \* per start that got a stream: its objects and its closure
    nextSession,        \* number of streams handed out so far, plus one
    startCalls,         \* start calls at their first await (getUserMedia, setAudioModeAsync)
    recordingRef,       \* native ref: 0 is null, r > 0 the Audio.Recording r
    recording,          \* per Audio.Recording: none, preparing, prepared, recording,
                        \*   unloaded, leaked (prepared, and its start call has ended)
    nextRecording,      \* number of Audio.Recording objects constructed so far, plus one
    allowsRecordingIOS, \* the audio mode Audio.setAudioModeAsync last set
    stopUnloading,      \* per recording: stop calls awaiting its stopAndUnloadAsync()
    stopCalls,          \* stop calls awaiting their final setAudioModeAsync
    useMic,             \* App: useState(false)
    effectDeps,         \* App: the dependencies the mic-toggle effect last ran with
    orbMounted,         \* ReactiveOrb is mounted
    orbStyle,           \* prop style, the key of the GLView: "default", "siri"
    orbState,           \* prop state: "idle", "user", "ai"
    contextPending,     \* a GLView has been mounted and its GL context is not created yet
    glRef,              \* 0 is null, g > 0 the GL context of surface g
    programRef,         \* 0 is null, g > 0 the program linked on surface g
    animationRef,       \* 0 is null, g > 0 the handle last returned to surface g's render
    gl,                 \* per GL surface: the surface and the render closure bound to it
    nextGl,             \* number of GL contexts created so far, plus one
    startTimeRef,       \* useRef(Date.now())
    targetStateRef,     \* useRef(0)
    currentStateRef,    \* useRef(0)
    targetsVisited,     \* history: the targets of the states the component has been given
    stepRun,            \* a step response of the smoothing, measured sample by sample
    manualAudioLevel,   \* App: useState(0.3), the level slider
    audioLevelRef,      \* useRef(audioLevel)
    zoomRef,            \* useRef(zoom)
    wobbleRef,          \* useRef(wobble)
    published,          \* history: the last two levels passed to setAudioLevel, newest first
    retarget            \* history: the value when the target was last written, and the
                        \*   interpolation steps since

hookVars == <<hasPermission, error, isRecording, audioLevel, smoothedLevelRef, noiseFloorRef>>
webRefs == <<streamRef, audioContextRef, analyserRef, sourceRef, dataArrayRef, webAnimationRef>>
webVars == <<webRefs, session, nextSession>>
nativeVars == <<recordingRef, recording, nextRecording, allowsRecordingIOS, stopUnloading,
                stopCalls>>
envVars == <<isWeb, micAllowed, rawInputs, meteringInputs>>
appVars == <<useMic, effectDeps>>
orbVars == <<orbMounted, orbStyle, orbState, contextPending, glRef, programRef, animationRef,
             gl, nextGl, startTimeRef, targetStateRef, currentStateRef, targetsVisited>>
captureVars == <<rawNormalized, metering, hookVars, webVars, startCalls, nativeVars, appVars>>
propVars == <<manualAudioLevel, audioLevelRef, zoomRef, wobbleRef>>
vars == <<envVars, now, captureVars, orbVars, stepRun, propVars, published, retarget>>

Sessions == 1..MaxSessions
Recordings == 1..MaxSessions
Surfaces == 1..MaxSurfaces

\* a session before its start has acquired anything
NoSession ==
    [stream |-> "none",             \* MediaStream: none, live, stopped
     ctx |-> "none",                \* AudioContext: none, open, closed
     loop |-> "none",               \* updateLevel: none (not scheduled), pending, due
     calibrationSamples |-> {},     \* let calibrationSamples: number[] = []
     calibrationStart |-> 0]        \* const calibrationStart = Date.now()

\* the samples of a run: silence, and a sound of rms 212.5 of 255, whose
\* 1.2-fold is exactly 1.0
SilenceAndSound == {0, (5 * Scale) \div 6}

\* status.metering, in dB: a reading the -42 dB gate removes, and speech
MeteringInputs == {-42, -30}

\* the metering of a recorder that has reported nothing yet: digital silence
NoMetering == -160

\* state === 'idle' ? 0 : state === 'user' ? 1 : 2
StateOrdinal(st) == IF st = "idle" THEN 0 ELSE IF st = "user" THEN Scale ELSE 2 * Scale

\* a GL surface before its context is created
NoSurface ==
    [surface |-> "none",            \* none, live, destroyed
     loop |-> "none",               \* render: none (not scheduled), pending, due
     elapsed |-> 0]                 \* the uniform u_time as render last wrote it, ms

\* a history that is not being recorded
NoHistory == <<>>

\* setAudioLevel(level), recorded in the history of published levels
Publish(history, level) ==
    IF history = NoHistory THEN history ELSE <<level, history[1]>>

\* the target is written while the interpolated value is value
Retargeted(history, value) ==
    IF history = NoHistory THEN history ELSE <<value, 0>>

\* one more interpolation step towards the target
Stepped(history) ==
    IF history = NoHistory THEN history ELSE <<history[1], history[2] + 1>>

\* no history is recorded
Unrecorded == published = NoHistory /\ retarget = NoHistory

\* useAudioLevel and App after the first render, on one of the platforms
HookMounted(platforms) ==
    /\ isWeb \in platforms
    /\ micAllowed \in BOOLEAN
    /\ rawInputs = SilenceAndSound
    /\ meteringInputs = MeteringInputs
    /\ metering = NoMetering
    /\ now = 0
    /\ rawNormalized \in rawInputs
    /\ hasPermission = "null"
    /\ error = "null"
    /\ isRecording = FALSE
    /\ audioLevel = 0
    /\ smoothedLevelRef = 0
    /\ noiseFloorRef = InitialNoiseFloor
    /\ streamRef = 0
    /\ audioContextRef = 0
    /\ analyserRef = 0
    /\ sourceRef = 0
    /\ dataArrayRef = 0
    /\ webAnimationRef = 0
    /\ session = [s \in Sessions |-> NoSession]
    /\ nextSession = 1
    /\ startCalls = 0
    /\ recordingRef = 0
    /\ recording = [r \in Recordings |-> "none"]
    /\ nextRecording = 1
    /\ allowsRecordingIOS = FALSE
    /\ stopUnloading = [r \in Recordings |-> 0]
    /\ stopCalls = 0
    /\ useMic = FALSE
    /\ effectDeps = <<FALSE, FALSE, "null">>
    /\ manualAudioLevel = (3 * Scale) \div 10

\* ReactiveOrb after the first render, mounted with one of the states
OrbMounted(states) ==
    /\ orbMounted = TRUE
    /\ orbStyle = "default"
    /\ orbState \in states
    /\ contextPending = TRUE
    /\ glRef = 0
    /\ programRef = 0
    /\ animationRef = 0
    /\ gl = [g \in Surfaces |-> NoSurface]
    /\ nextGl = 1
    /\ startTimeRef = 0
    /\ targetStateRef = 0
    /\ currentStateRef = 0
    /\ targetsVisited = {StateOrdinal(orbState)}
    /\ audioLevelRef = manualAudioLevel
    /\ zoomRef = Scale
    /\ wobbleRef = (3 * Scale) \div 10

\* no step response is being measured
NoStepRun ==
    [path |-> "none", target |-> 0, up |-> 0, down |-> 0, samples |-> 0,
     upCoveredAt |-> 0, downCoveredAt |-> 0]

\* the app: App mounts ReactiveOrb with state 'idle'
Init == HookMounted(BOOLEAN) /\ OrbMounted({"idle"}) /\ stepRun = NoStepRun /\ Unrecorded

\* ReactiveOrb mounted with state 'idle' by a parent that does not record
PropsInit ==
    /\ HookMounted({TRUE})
    /\ micAllowed
    /\ rawNormalized = 0
    /\ OrbMounted({"idle"})
    /\ stepRun = NoStepRun
    /\ Unrecorded

\* ReactiveOrb mounted with state 'idle' or 'ai', its retargets and steps
\* recorded from the mount: value 0, target 0, no step yet
InterpolatorInit ==
    /\ HookMounted({TRUE})
    /\ micAllowed
    /\ rawNormalized = 0
    /\ OrbMounted({"idle", "ai"})
    /\ stepRun = NoStepRun
    /\ published = NoHistory
    /\ retarget = <<currentStateRef, 0>>

\* ReactiveOrb mounted by any parent with any state
OrbInit ==
    /\ HookMounted({TRUE})
    /\ micAllowed
    /\ rawNormalized = 0
    /\ OrbMounted({"idle", "user", "ai"})
    /\ stepRun = NoStepRun
    /\ Unrecorded

\* a frame callback is due: the callbacks of one frame run back to back, in the
\* order they were requested, before any other event
InFrame == \E s \in Sessions : session[s].loop = "due"

\* ------------------------------------------------- permission on mount
\* navigator.mediaDevices.getUserMedia({audio: true}).then(...).catch(...)
MountPermissionWeb ==
    /\ isWeb /\ hasPermission = "null"
    /\ ~InFrame
    /\ IF micAllowed
       THEN /\ hasPermission' = "true"
            /\ UNCHANGED error
       ELSE /\ hasPermission' = "false"
            /\ error' = "Microphone permission denied"
    /\ UNCHANGED <<envVars, metering, stepRun, propVars, published, retarget, orbVars, appVars, now, rawNormalized, isRecording, audioLevel, smoothedLevelRef,
                   noiseFloorRef, webVars, startCalls, nativeVars>>

\* ------------------------------------------------------- updateLevel
\* an updateLevel that takes every sample as a calibration sample
UpdateLevelStepCalibrating(raw, elapsed, samples, noiseFloor, currentSmoothed, level) ==
    [calibrationSamples |-> samples \cup {raw},
     noiseFloor |-> CalibratedFloor(samples \cup {raw}),
     smoothed |-> currentSmoothed,
     audioLevel |-> level]

\* an updateLevel whose calibration branch does not return early: the sample is
\* recorded, gated with the new floor, smoothed and published
UpdateLevelStepConditioning(raw, elapsed, samples, noiseFloor, currentSmoothed, level) ==
    LET floor == IF elapsed < CalibrationDuration
                 THEN CalibratedFloor(samples \cup {raw}) ELSE noiseFloor
        smoothed == Smooth(currentSmoothed, WebCurve(NoiseGate(raw, floor)))
    IN  [calibrationSamples |-> IF elapsed < CalibrationDuration
                                THEN samples \cup {raw} ELSE samples,
         noiseFloor |-> floor,
         smoothed |-> smoothed,
         audioLevel |-> SnapToZero(smoothed)]

\* one run of updateLevel past its null check, as the values it leaves behind
UpdateLevelStep(raw, elapsed, samples, noiseFloor, currentSmoothed, level) ==
    IF elapsed < CalibrationDuration
    THEN [calibrationSamples |-> samples \cup {raw},
          noiseFloor |-> CalibratedFloor(samples \cup {raw}),
          smoothed |-> currentSmoothed,
          audioLevel |-> level]
    ELSE LET gated == NoiseGate(raw, noiseFloor)
             clampedLevel == WebCurve(gated)
             smoothed == Smooth(currentSmoothed, clampedLevel)
         IN  [calibrationSamples |-> samples,
              noiseFloor |-> noiseFloor,
              smoothed |-> smoothed,
              audioLevel |-> SnapToZero(smoothed)]

\* the display refreshes: time has passed, the microphone hears something new,
\* and every callback requested before this frame is due
AnimationFrame ==
    /\ isWeb
    /\ now < MaxFrames * FrameMs
    /\ ~InFrame
    /\ now' = now + FrameMs
    /\ rawNormalized' \in rawInputs
    /\ session' = [s \in Sessions |->
                     IF session[s].loop = "pending"
                     THEN [session[s] EXCEPT !.loop = "due"] ELSE session[s]]
    /\ UNCHANGED <<envVars, metering, stepRun, propVars, published, retarget, orbVars, appVars, hookVars, webRefs, nextSession, startCalls, nativeVars>>

\* the frame callback of session s: updateLevel
UpdateLevel(s) ==
    /\ session[s].loop = "due"
    /\ \A t \in Sessions : t < s => session[t].loop # "due"
    /\ IF analyserRef = 0 \/ dataArrayRef = 0
       THEN /\ session' = [session EXCEPT ![s].loop = "none",
                                           ![s].calibrationSamples = {},
                                           ![s].calibrationStart = 0]
            /\ UNCHANGED <<hookVars, webRefs, published>>
       ELSE LET r == UpdateLevelStep(rawNormalized, now - session[s].calibrationStart,
                                     session[s].calibrationSamples, noiseFloorRef,
                                     smoothedLevelRef, audioLevel)
            IN  /\ session' = [session EXCEPT ![s].calibrationSamples = r.calibrationSamples,
                                              ![s].loop = "pending"]
                /\ noiseFloorRef' = r.noiseFloor
                /\ smoothedLevelRef' = r.smoothed
                /\ audioLevel' = r.audioLevel
                /\ published' = IF now - session[s].calibrationStart < CalibrationDuration
                                THEN published ELSE Publish(published, r.audioLevel)
                /\ webAnimationRef' = s
                /\ UNCHANGED <<hasPermission, error, isRecording, streamRef,
                               audioContextRef, analyserRef, sourceRef, dataArrayRef>>
    /\ UNCHANGED <<envVars, metering, stepRun, propVars, retarget, orbVars, appVars, now, rawNormalized, nextSession, startCalls,
                   nativeVars>>

\* ------------------------------------------------- startWebRecording
\* startWebRecording up to its await: setError(null); getUserMedia(...)
StartWebRecording ==
    /\ isWeb
    /\ ~InFrame
    /\ startCalls < MaxCalls
    /\ error' = "null"
    /\ startCalls' = startCalls + 1
    /\ UNCHANGED <<envVars, metering, stepRun, propVars, published, retarget, orbVars, now, rawNormalized, hasPermission, isRecording, audioLevel,
                   smoothedLevelRef, noiseFloorRef, webVars, nativeVars>>

\* getUserMedia rejects (permission denied, device busy): the catch block
StartWebRejected ==
    /\ isWeb
    /\ startCalls > 0
    /\ ~InFrame
    /\ error' = "Failed"
    /\ startCalls' = startCalls - 1
    /\ UNCHANGED <<envVars, metering, stepRun, propVars, published, retarget, orbVars, appVars, now, rawNormalized, hasPermission, isRecording, audioLevel,
                   smoothedLevelRef, noiseFloorRef, webVars, nativeVars>>

\* getUserMedia resolves and `new AudioContext()` throws (a browser caps the
\* number of contexts): streamRef holds the new stream, then the catch block
StartWebThrows ==
    /\ isWeb
    /\ startCalls > 0
    /\ ~InFrame
    /\ micAllowed
    /\ nextSession <= MaxSessions
    /\ streamRef' = nextSession
    /\ session' = [session EXCEPT ![nextSession].stream = "live"]
    /\ nextSession' = nextSession + 1
    /\ error' = "Failed"
    /\ startCalls' = startCalls - 1
    /\ UNCHANGED <<envVars, metering, stepRun, propVars, published, retarget, orbVars, appVars, now, rawNormalized, hasPermission, isRecording, audioLevel,
                   smoothedLevelRef, noiseFloorRef, audioContextRef, analyserRef, sourceRef,
                   dataArrayRef, webAnimationRef, nativeVars>>

\* getUserMedia resolves and the body runs to its end, the first updateLevel()
\* included; stall is the time Date.now() advances between the read of
\* calibrationStart and the read in the first updateLevel()
StartWebSucceedsAfter(stall) ==
    /\ isWeb
    /\ startCalls > 0
    /\ ~InFrame
    /\ micAllowed
    /\ nextSession <= MaxSessions
    /\ now + stall <= MaxFrames * FrameMs
    /\ now' = now + stall
    /\ LET s == nextSession
       IN  /\ streamRef' = s
           /\ audioContextRef' = s
           /\ analyserRef' = s
           /\ sourceRef' = s
           /\ dataArrayRef' = s
           /\ isRecording' = TRUE
           /\ LET r == UpdateLevelStep(rawNormalized, stall, {}, noiseFloorRef,
                                       smoothedLevelRef, audioLevel)
              IN  /\ session' = [session EXCEPT ![s] =
                                   [stream |-> "live", ctx |-> "open", loop |-> "pending",
                                    calibrationSamples |-> r.calibrationSamples,
                                    calibrationStart |-> now]]
                  /\ noiseFloorRef' = r.noiseFloor
                  /\ smoothedLevelRef' = r.smoothed
                  /\ audioLevel' = r.audioLevel
                  /\ published' = IF stall < CalibrationDuration
                                  THEN published ELSE Publish(published, r.audioLevel)
           /\ webAnimationRef' = s
    /\ nextSession' = nextSession + 1
    /\ startCalls' = startCalls - 1
    /\ UNCHANGED <<envVars, metering, stepRun, propVars, retarget, orbVars, appVars, rawNormalized, hasPermission, error,
                   nativeVars>>

\* the body runs without a pause: the first updateLevel() runs at
\* calibrationStart, so it is a calibration sample
StartWebSucceeds == StartWebSucceedsAfter(0)

\* the thread is suspended (or the wall clock is set forward) past the
\* calibration window before the first updateLevel() reads Date.now()
StartWebSucceedsLate == StartWebSucceedsAfter(CalibrationDuration)

\* the capture source stops delivering (the device is unplugged, the browser
\* revokes the track): the track ends; the hook has registered no handler
TrackEnded(s) ==
    /\ isWeb
    /\ ~InFrame
    /\ session[s].stream = "live"
    /\ session' = [session EXCEPT ![s].stream = "ended"]
    /\ UNCHANGED <<envVars, metering, stepRun, propVars, published, retarget, orbVars, appVars, now, rawNormalized, hookVars, webRefs,
                   nextSession, startCalls, nativeVars>>

\* -------------------------------------------------- stopWebRecording
\* a stop that does not cancel the frame callback
CancelLoopSkipped(sess, h) == sess

\* cancelAnimationFrame(handle): the callback the handle names no longer runs
CancelLoop(sess, h) ==
    [s \in Sessions |->
       IF s = h /\ sess[s].loop \in {"pending", "due"}
       THEN [sess[s] EXCEPT !.loop = "none", !.calibrationSamples = {},
                            !.calibrationStart = 0]
       ELSE sess[s]]

\* audioContext.close()
CloseContext(sess, h) ==
    [s \in Sessions |-> IF s = h THEN [sess[s] EXCEPT !.ctx = "closed"] ELSE sess[s]]

\* stream.getTracks().forEach(track => track.stop())
StopTracks(sess, h) ==
    [s \in Sessions |-> IF s = h THEN [sess[s] EXCEPT !.stream = "stopped"] ELSE sess[s]]

\* a stop that leaves the level where it was
StoppedLevelKept(level) == level

\* smoothedLevelRef.current = 0; setAudioLevel(0)
StoppedLevel(level) == 0

StopWebRecording ==
    /\ isWeb
    /\ ~InFrame
    /\ session' = StopTracks(CloseContext(CancelLoop(session, webAnimationRef),
                                            audioContextRef), streamRef)
    /\ webAnimationRef' = 0
    /\ sourceRef' = 0
    /\ analyserRef' = 0
    /\ audioContextRef' = 0
    /\ streamRef' = 0
    /\ smoothedLevelRef' = StoppedLevel(smoothedLevelRef)
    /\ isRecording' = FALSE
    /\ audioLevel' = StoppedLevel(audioLevel)
    /\ published' = Publish(published, StoppedLevel(audioLevel))
    /\ UNCHANGED <<envVars, metering, stepRun, propVars, retarget, orbVars, now, rawNormalized, hasPermission, error, noiseFloorRef,
                   dataArrayRef, nextSession, startCalls, nativeVars>>

\* ------------------------------------------------------ native path
\* Audio.requestPermissionsAsync() on mount: granted, not granted, or it throws
MountPermissionNative(outcome) ==
    /\ ~isWeb /\ hasPermission = "null"
    /\ outcome = "granted" => micAllowed
    /\ IF outcome = "granted"
       THEN /\ hasPermission' = "true"
            /\ UNCHANGED error
       ELSE /\ hasPermission' = "false"
            /\ error' = IF outcome = "denied" THEN "Microphone permission denied"
                        ELSE "Failed to request permissions"
    /\ UNCHANGED <<envVars, metering, stepRun, propVars, published, retarget, orbVars, appVars, now, rawNormalized, isRecording, audioLevel, smoothedLevelRef,
                   noiseFloorRef, webVars, startCalls, nativeVars>>

\* a normalisation without the gate at -42 dB
NativeNormalizedUngated(db) == Max2(0, Min2(Scale, RoundDiv((db + 50) * Scale, 40)))

\* gatedDb = db > noiseGateDb ? db : -60
\* normalized = Math.max(0, Math.min(1, (gatedDb + 50) / 40))
NativeNormalized(db) ==
    LET gatedDb == IF db > -42 THEN db ELSE -60
    IN  Max2(0, Min2(Scale, RoundDiv((gatedDb + 50) * Scale, 40)))

\* the status callback up to the curve: gate at -42 dB, normalise, curve
NativeCurved(db) == Pow06(NativeNormalized(db))

\* the body of the status callback: gate, normalise, curve, smooth
NativeSmoothed(db, currentSmoothed) == Smooth(currentSmoothed, NativeCurved(db))

\* a guard that lets a start through while the permission request is pending
PermissionMissingWhenRefused == hasPermission = "false"

\* !hasPermission
PermissionMissing == hasPermission # "true"

\* startNativeRecording without permission: setError and return
StartNativeNoPermission ==
    /\ ~isWeb
    /\ PermissionMissing
    /\ error' = "No microphone permission"
    /\ UNCHANGED <<envVars, metering, stepRun, propVars, published, retarget, orbVars, now, rawNormalized, hasPermission, isRecording, audioLevel,
                   smoothedLevelRef, noiseFloorRef, webVars, startCalls, nativeVars>>

\* startNativeRecording up to its first await: setError(null); setAudioModeAsync(...)
StartNativeBegins ==
    /\ ~isWeb
    /\ ~PermissionMissing
    /\ startCalls < MaxCalls
    /\ error' = "null"
    /\ startCalls' = startCalls + 1
    /\ UNCHANGED <<envVars, metering, stepRun, propVars, published, retarget, orbVars, now, rawNormalized, hasPermission, isRecording, audioLevel,
                   smoothedLevelRef, noiseFloorRef, webVars, nativeVars>>

\* setAudioModeAsync rejects: the catch block
StartNativeModeRejected ==
    /\ ~isWeb
    /\ startCalls > 0
    /\ error' = "Failed"
    /\ startCalls' = startCalls - 1
    /\ UNCHANGED <<envVars, metering, stepRun, propVars, published, retarget, orbVars, appVars, now, rawNormalized, hasPermission, isRecording, audioLevel,
                   smoothedLevelRef, noiseFloorRef, webVars, nativeVars>>

\* setAudioModeAsync resolves: new Audio.Recording(), the status callback is
\* registered, prepareToRecordAsync(...) is awaited
StartNativeModeSet ==
    /\ ~isWeb
    /\ startCalls > 0
    /\ nextRecording <= MaxSessions
    /\ allowsRecordingIOS' = TRUE
    /\ recording' = [recording EXCEPT ![nextRecording] = "preparing"]
    /\ nextRecording' = nextRecording + 1
    /\ startCalls' = startCalls - 1
    /\ UNCHANGED <<envVars, metering, stepRun, propVars, published, retarget, orbVars, appVars, now, rawNormalized, hookVars, webVars, recordingRef,
                   stopUnloading, stopCalls>>

\* expo-av holds one recorder: "Only one Recording object can be prepared at a
\* given time"
RecorderExists == \E r \in Recordings : recording[r] \in {"prepared", "recording", "leaked", "interrupted"}

\* prepareToRecordAsync resolves: the recorder is held; startAsync() is awaited
StartNativePrepared(r) ==
    /\ recording[r] = "preparing"
    /\ micAllowed
    /\ ~RecorderExists
    /\ recording' = [recording EXCEPT ![r] = "prepared"]
    /\ UNCHANGED <<envVars, metering, stepRun, propVars, published, retarget, orbVars, appVars, now, rawNormalized, hookVars, webVars, startCalls, recordingRef,
                   nextRecording, allowsRecordingIOS, stopUnloading, stopCalls>>

\* prepareToRecordAsync rejects: the catch block; the recording object is dropped
StartNativePrepareRejected(r) ==
    /\ recording[r] = "preparing"
    /\ recording' = [recording EXCEPT ![r] = "unloaded"]
    /\ error' = "Failed"
    /\ UNCHANGED <<envVars, metering, stepRun, propVars, published, retarget, orbVars, appVars, now, rawNormalized, hasPermission, isRecording, audioLevel,
                   smoothedLevelRef, noiseFloorRef, webVars, startCalls, recordingRef,
                   nextRecording, allowsRecordingIOS, stopUnloading, stopCalls>>

\* startAsync resolves: recordingRef.current = recording; setIsRecording(true)
StartNativeSucceeds(r) ==
    /\ recording[r] = "prepared"
    /\ recording' = [recording EXCEPT ![r] = "recording"]
    /\ recordingRef' = r
    /\ isRecording' = TRUE
    /\ UNCHANGED <<envVars, metering, stepRun, propVars, published, retarget, orbVars, appVars, now, rawNormalized, hasPermission, error, audioLevel,
                   smoothedLevelRef, noiseFloorRef, webVars, startCalls, nextRecording,
                   allowsRecordingIOS, stopUnloading, stopCalls>>

\* startAsync rejects: the catch block; the prepared recording is referenced by
\* nothing and is never unloaded
StartNativeStartRejected(r) ==
    /\ recording[r] = "prepared"
    /\ error' = "Failed"
    /\ recording' = [recording EXCEPT ![r] = "leaked"]
    /\ UNCHANGED <<envVars, metering, stepRun, propVars, published, retarget, orbVars, appVars, now, rawNormalized, hasPermission, isRecording, audioLevel,
                   smoothedLevelRef, noiseFloorRef, webVars, startCalls, recordingRef,
                   nextRecording, allowsRecordingIOS, stopUnloading, stopCalls>>

\* the status callback of recording r, while it records and meters: one
\* progress-update interval after the last one
NativeStatusUpdate(r) ==
    /\ recording[r] = "recording"
    /\ now < MaxFrames * FrameMs
    /\ now' = now + FrameMs
    /\ \E db \in meteringInputs :
         LET smoothed == NativeSmoothed(db, smoothedLevelRef)
         IN  /\ metering' = db
             /\ smoothedLevelRef' = smoothed
             /\ audioLevel' = SnapToZero(smoothed)
             /\ published' = Publish(published, SnapToZero(smoothed))
    /\ UNCHANGED <<envVars, stepRun, propVars, retarget, orbVars, appVars, rawNormalized, hasPermission, error, isRecording, noiseFloorRef,
                   webVars, startCalls, nativeVars>>

\* the recording is interrupted (a call, another app taking the microphone):
\* the status callback runs with status.isRecording false and writes nothing
NativeInterrupted(r) ==
    /\ recording[r] = "recording"
    /\ recording' = [recording EXCEPT ![r] = "interrupted"]
    /\ UNCHANGED <<envVars, metering, stepRun, propVars, published, retarget, orbVars, appVars, now, rawNormalized, hookVars, webVars,
                   startCalls, recordingRef, nextRecording, allowsRecordingIOS, stopUnloading,
                   stopCalls>>

RECURSIVE SumUpTo(_, _)
SumUpTo(f, n) == IF n = 0 THEN 0 ELSE f[n] + SumUpTo(f, n - 1)

\* the stop calls that have not returned yet
StopsInFlight == stopCalls + SumUpTo(stopUnloading, MaxSessions)

\* stopNativeRecording up to its first await
StopNativeRecording ==
    /\ ~isWeb
    /\ StopsInFlight < MaxCalls
    /\ IF recordingRef # 0
       THEN /\ stopUnloading' = [stopUnloading EXCEPT ![recordingRef] = @ + 1]
            /\ UNCHANGED <<hookVars, stopCalls, published>>
       ELSE /\ smoothedLevelRef' = StoppedLevel(smoothedLevelRef)
            /\ isRecording' = FALSE
            /\ audioLevel' = StoppedLevel(audioLevel)
            /\ published' = Publish(published, StoppedLevel(audioLevel))
            /\ stopCalls' = stopCalls + 1
            /\ UNCHANGED <<hasPermission, error, noiseFloorRef, stopUnloading>>
    /\ UNCHANGED <<envVars, metering, stepRun, propVars, retarget, orbVars, now, rawNormalized, webVars, startCalls, recordingRef, recording,
                   nextRecording, allowsRecordingIOS>>

\* stopAndUnloadAsync settles (resolved, or rejected and caught): the recorder
\* is released; recordingRef.current = null and the reset follow
StopNativeUnloaded(r) ==
    /\ stopUnloading[r] > 0
    /\ stopUnloading' = [stopUnloading EXCEPT ![r] = @ - 1]
    /\ recording' = [recording EXCEPT ![r] = "unloaded"]
    /\ recordingRef' = 0
    /\ smoothedLevelRef' = StoppedLevel(smoothedLevelRef)
    /\ isRecording' = FALSE
    /\ audioLevel' = StoppedLevel(audioLevel)
    /\ published' = Publish(published, StoppedLevel(audioLevel))
    /\ stopCalls' = stopCalls + 1
    /\ UNCHANGED <<envVars, metering, stepRun, propVars, retarget, orbVars, appVars, now, rawNormalized, hasPermission, error, noiseFloorRef, webVars,
                   startCalls, nextRecording, allowsRecordingIOS>>

\* the final setAudioModeAsync({allowsRecordingIOS: false}) settles
StopNativeModeSet(ok) ==
    /\ stopCalls > 0
    /\ stopCalls' = stopCalls - 1
    /\ allowsRecordingIOS' = IF ok THEN FALSE ELSE allowsRecordingIOS
    /\ UNCHANGED <<envVars, metering, stepRun, propVars, published, retarget, orbVars, appVars, now, rawNormalized, hookVars, webVars, startCalls, recordingRef,
                   recording, nextRecording, stopUnloading>>

\* ------------------------------------------- startRecording / stopRecording
StartNativeRecording == StartNativeNoPermission \/ StartNativeBegins

\* the platform-specific start and stop the hook returns
StartRecording == IF isWeb THEN StartWebRecording ELSE StartNativeRecording
StopRecording == IF isWeb THEN StopWebRecording ELSE StopNativeRecording

\* a caller of the hook calls startRecording / stopRecording
CallStartRecording == StartRecording /\ UNCHANGED appVars
CallStopRecording == StopRecording /\ UNCHANGED appVars

\* ------------------------------------------------------------- App
\* the switch: setUseMic
ToggleMic ==
    /\ ~InFrame
    /\ useMic' = ~useMic
    /\ UNCHANGED <<envVars, metering, stepRun, propVars, published, retarget, orbVars, effectDeps, now, rawNormalized, hookVars, webVars, startCalls,
                   nativeVars>>

\* [useMic, isRecording, startRecording, stopRecording]: startRecording is a new
\* function whenever hasPermission has changed
CurrentDeps == <<useMic, isRecording, hasPermission>>

\* the mic-toggle effect, run after a render in which a dependency changed
MicToggleEffect ==
    /\ ~InFrame
    /\ effectDeps # CurrentDeps
    /\ effectDeps' = CurrentDeps
    /\ UNCHANGED useMic
    /\ IF useMic /\ ~isRecording THEN StartRecording
       ELSE IF ~useMic /\ isRecording THEN StopRecording
       ELSE UNCHANGED <<envVars, metering, stepRun, propVars, published, retarget, orbVars, now, rawNormalized, hookVars, webVars, startCalls, nativeVars>>

\* -------------------------------------------------------- ReactiveOrb
\* an interpolator with the fraction 0.07
InterpolateSlowly(current, target) == current + RoundDiv((target - current) * 7, 100)

\* an interpolator that steps past its target
InterpolateOvershoots(current, target) == current + RoundDiv((target - current) * 108, 100)

\* currentStateRef.current += (targetStateRef.current - currentStateRef.current) * 0.08
Interpolate(current, target) == current + RoundDiv((target - current) * 8, 100)

\* (Date.now() - startTimeRef.current), the elapsed time before the division
\* by 1000
Elapsed(clock, start) == clock - start

\* a render callback is due
InOrbFrame == \E g \in Surfaces : gl[g].loop = "due"

\* a state change that also sets the interpolated value to the new target
SetStateSnaps(st) ==
    /\ orbMounted /\ ~InOrbFrame
    /\ st # orbState
    /\ orbState' = st
    /\ targetStateRef' = StateOrdinal(st)
    /\ currentStateRef' = StateOrdinal(st)
    /\ targetsVisited' = targetsVisited \cup {StateOrdinal(st)}
    /\ retarget' = Retargeted(retarget, currentStateRef)
    /\ UNCHANGED <<envVars, stepRun, propVars, published, now, captureVars, orbMounted, orbStyle,
                   contextPending, glRef, programRef, animationRef, gl, nextGl, startTimeRef>>

\* the parent passes a new state; the effect on [state] writes the target
SetState(st) ==
    /\ orbMounted /\ ~InOrbFrame
    /\ st # orbState
    /\ orbState' = st
    /\ targetStateRef' = StateOrdinal(st)
    /\ targetsVisited' = targetsVisited \cup {StateOrdinal(st)}
    /\ retarget' = Retargeted(retarget, currentStateRef)
    /\ UNCHANGED <<envVars, stepRun, propVars, published, now, captureVars, orbMounted, orbStyle, contextPending, glRef,
                   programRef, animationRef, gl, nextGl, startTimeRef, currentStateRef>>

\* the effect on [state] after the mount
MountStateEffect ==
    /\ orbMounted /\ ~InOrbFrame
    /\ targetStateRef # StateOrdinal(orbState)
    /\ targetStateRef' = StateOrdinal(orbState)
    /\ retarget' = Retargeted(retarget, currentStateRef)
    /\ UNCHANGED <<envVars, stepRun, propVars, published, now, captureVars, orbMounted, orbStyle, orbState, contextPending,
                   glRef, programRef, animationRef, gl, nextGl, startTimeRef, currentStateRef,
                   targetsVisited>>

\* the values a parent gives zoom, wobble and audioLevel
ZoomValues == {Scale, 2 * Scale}
WobbleValues == {(3 * Scale) \div 10, Scale}
LevelValues == {(3 * Scale) \div 10, Scale}

\* the parent passes a new zoom; the effect on [zoom] writes the ref
SetZoom(value) ==
    /\ orbMounted /\ ~InOrbFrame
    /\ value # zoomRef
    /\ zoomRef' = value
    /\ UNCHANGED <<envVars, now, captureVars, orbVars, stepRun, manualAudioLevel, audioLevelRef,
                   wobbleRef, published, retarget>>

\* the parent passes a new wobble; the effect on [wobble] writes the ref
SetWobble(value) ==
    /\ orbMounted /\ ~InOrbFrame
    /\ value # wobbleRef
    /\ wobbleRef' = value
    /\ UNCHANGED <<envVars, now, captureVars, orbVars, stepRun, manualAudioLevel, audioLevelRef,
                   zoomRef, published, retarget>>

\* the parent passes a new audioLevel; the effect on [audioLevel] writes the ref
SetAudioLevel(value) ==
    /\ orbMounted /\ ~InOrbFrame
    /\ value # audioLevelRef
    /\ audioLevelRef' = value
    /\ UNCHANGED <<envVars, now, captureVars, orbVars, stepRun, manualAudioLevel, zoomRef,
                   wobbleRef, published, retarget>>

\* the GLView is unmounted: its surface is destroyed
DestroySurface(surfaces) ==
    [g \in Surfaces |->
       IF surfaces[g].surface = "live"
       THEN [surfaces[g] EXCEPT !.surface = "destroyed"] ELSE surfaces[g]]

\* cancelAnimationFrame(animationRef.current)
CancelRender(surfaces, h) ==
    [g \in Surfaces |-> IF g = h THEN [surfaces[g] EXCEPT !.loop = "none"] ELSE surfaces[g]]

\* the parent passes a new style: <GLView key={style}> is replaced by a new
\* GLView; no effect and no cleanup of ReactiveOrb runs
SetStyle ==
    /\ orbMounted /\ ~InOrbFrame
    /\ orbStyle' = IF orbStyle = "default" THEN "siri" ELSE "default"
    /\ gl' = DestroySurface(gl)
    /\ contextPending' = TRUE
    /\ UNCHANGED <<envVars, stepRun, propVars, published, retarget, now, captureVars, orbMounted, orbState, glRef, programRef,
                   animationRef, nextGl, startTimeRef, targetStateRef, currentStateRef,
                   targetsVisited>>

\* onContextCreate whose shaders fail to compile or whose program fails to link:
\* glRef and startTimeRef are written, then it returns
OnContextCreateFails ==
    /\ orbMounted /\ ~InOrbFrame
    /\ contextPending
    /\ nextGl <= MaxSurfaces
    /\ contextPending' = FALSE
    /\ glRef' = nextGl
    /\ startTimeRef' = now
    /\ gl' = [gl EXCEPT ![nextGl].surface = "live"]
    /\ nextGl' = nextGl + 1
    /\ UNCHANGED <<envVars, stepRun, propVars, published, retarget, now, captureVars, orbMounted, orbStyle, orbState, programRef,
                   animationRef, targetStateRef, currentStateRef,
                   targetsVisited>>

\* onContextCreate to its end, the first render() included
OnContextCreate ==
    /\ orbMounted /\ ~InOrbFrame
    /\ contextPending
    /\ nextGl <= MaxSurfaces
    /\ contextPending' = FALSE
    /\ glRef' = nextGl
    /\ startTimeRef' = now
    /\ programRef' = nextGl
    /\ currentStateRef' = Interpolate(currentStateRef, targetStateRef)
    /\ retarget' = Stepped(retarget)
    /\ animationRef' = nextGl
    /\ gl' = [gl EXCEPT ![nextGl] = [surface |-> "live", loop |-> "pending",
                                     elapsed |-> Elapsed(now, now)]]
    /\ nextGl' = nextGl + 1
    /\ UNCHANGED <<envVars, stepRun, propVars, published, now, captureVars, orbMounted, orbStyle, orbState, targetStateRef,
                   targetsVisited>>

\* the display refreshes: every render callback requested before is due
OrbAnimationFrame ==
    /\ now < MaxFrames * FrameMs
    /\ ~InOrbFrame
    /\ \E g \in Surfaces : gl[g].loop = "pending"
    /\ now' = now + FrameMs
    /\ gl' = [g \in Surfaces |->
                IF gl[g].loop = "pending" THEN [gl[g] EXCEPT !.loop = "due"] ELSE gl[g]]
    /\ UNCHANGED <<envVars, stepRun, propVars, published, retarget, captureVars, orbMounted, orbStyle, orbState, contextPending, glRef,
                   programRef, animationRef, nextGl, startTimeRef, targetStateRef,
                   currentStateRef,
                   targetsVisited>>

\* the render closure of surface g passes its null check, so it issues its
\* uniform and draw calls on g
RenderDraws(g) == gl[g].loop = "due" /\ glRef # 0 /\ programRef # 0

\* the frame callback of surface g: render
RenderTick(g) ==
    /\ gl[g].loop = "due"
    /\ \A h \in Surfaces : h < g => gl[h].loop # "due"
    /\ IF glRef = 0 \/ programRef = 0
       THEN /\ gl' = [gl EXCEPT ![g].loop = "none"]
            /\ UNCHANGED <<currentStateRef, animationRef, retarget>>
       ELSE /\ currentStateRef' = Interpolate(currentStateRef, targetStateRef)
            /\ retarget' = Stepped(retarget)
            /\ animationRef' = g
            /\ gl' = [gl EXCEPT ![g].loop = "pending",
                                ![g].elapsed = Elapsed(now, startTimeRef)]
    /\ UNCHANGED <<envVars, stepRun, propVars, published, now, captureVars, orbMounted, orbStyle, orbState, contextPending,
                   glRef, programRef, nextGl, startTimeRef, targetStateRef,
                   targetsVisited>>

\* ReactiveOrb unmounts: the cleanup cancels the handle in animationRef, and
\* the GLView goes with its surface
OrbUnmount ==
    /\ orbMounted /\ ~InOrbFrame
    /\ orbMounted' = FALSE
    /\ gl' = DestroySurface(CancelRender(gl, animationRef))
    /\ contextPending' = FALSE
    /\ UNCHANGED <<envVars, stepRun, propVars, published, retarget, now, captureVars, orbStyle, orbState, glRef, programRef,
                   animationRef, nextGl, startTimeRef, targetStateRef, currentStateRef,
                   targetsVisited>>

\* ------------------------------------------- step response of the smoothing
\* the raw inputs and metering values whose step responses are measured
StepRawInputs == {30, 60, 120, 240, 400, Scale}
StepMeteringInputs == {-40, -30, -20, -10}

\* the curved value of a web sample in a session calibrated on silence
StepWebCurved(raw) == WebCurve(NoiseGate(raw, 0))

\* two conditioners side by side: `up` starts at 0 and is fed the curved value
\* target, `down` starts at target and is fed silence
StartOfStep(path, target) ==
    [path |-> path, target |-> target, up |-> 0, down |-> target, samples |-> 0,
     upCoveredAt |-> 0, downCoveredAt |-> 0]

StepInit ==
    /\ HookMounted({TRUE})
    /\ micAllowed
    /\ rawNormalized = 0
    /\ OrbMounted({"idle"})
    /\ Unrecorded
    /\ stepRun \in {StartOfStep("web", StepWebCurved(raw)) : raw \in StepRawInputs}
                 \cup {StartOfStep("native", NativeCurved(db)) : db \in StepMeteringInputs}

\* the smoothing state has covered 90% of the way from `from` to `to`
Covered(from, to, smoothed) ==
    IF from <= to THEN 10 * (smoothed - from) >= 9 * (to - from)
    ELSE 10 * (from - smoothed) >= 9 * (from - to)

\* one more sample for both conditioners
FeedStepSample ==
    /\ stepRun.path # "none"
    /\ stepRun.samples < MaxSamples
    /\ stepRun.upCoveredAt = 0 \/ stepRun.downCoveredAt = 0
    /\ LET up == Smooth(stepRun.up, stepRun.target)
           down == Smooth(stepRun.down, 0)
           n == stepRun.samples + 1
       IN  stepRun' =
             [stepRun EXCEPT
                !.up = up, !.down = down, !.samples = n,
                !.upCoveredAt =
                   IF @ = 0 /\ Covered(0, stepRun.target, up) THEN n ELSE @,
                !.downCoveredAt =
                   IF @ = 0 /\ Covered(stepRun.target, 0, down) THEN n ELSE @]
    /\ UNCHANGED <<envVars, now, captureVars, orbVars, propVars, published, retarget>>

\* ------------------------------------------------------ the conditioner in mid-session
\* rawNormalized = rms / 255 of a microphone with seven loudness levels:
\* silence, 0.1, 0.2, 0.6, 0.75, 212.5/255 and full scale
ConditionerRaws == {0, Scale \div 10, Scale \div 5, (3 * Scale) \div 5, (3 * Scale) \div 4,
                    (5 * Scale) \div 6, Scale}

\* the loudest sample of a calibration window: the floors 0, 0.12, 0.9 and 1.0
CalibrationPeaks == {0, Scale \div 10, (3 * Scale) \div 4, (5 * Scale) \div 6}

\* smoothedLevelRef.current in mid-session: silent, just below and at the
\* snap threshold, half and full level
ConditionerPrevs == {0, (2 * Scale) \div 100 - 1, (2 * Scale) \div 100, Scale \div 2, Scale}

\* a web session whose calibration window has just ended: the window saw the
\* peak that set the floor, and the smoothing state is above 0 only if the
\* microphone can be louder than the floor
ConditionerInit ==
    /\ isWeb = TRUE
    /\ micAllowed = TRUE
    /\ rawInputs = ConditionerRaws
    /\ meteringInputs = MeteringInputs
    /\ metering = NoMetering
    /\ now = 0
    /\ rawNormalized \in rawInputs
    /\ hasPermission = "true"
    /\ error = "null"
    /\ isRecording = TRUE
    /\ \E peak \in CalibrationPeaks :
         /\ noiseFloorRef = CalibratedFloor({peak})
         /\ session = [s \in Sessions |->
                         IF s = 1
                         THEN [stream |-> "live", ctx |-> "open", loop |-> "pending",
                               calibrationSamples |-> {peak},
                               calibrationStart |-> 0 - CalibrationDuration]
                         ELSE NoSession]
    /\ smoothedLevelRef \in ConditionerPrevs
    /\ smoothedLevelRef > 0 => noiseFloorRef < MaxOf(rawInputs)
    /\ audioLevel = SnapToZero(smoothedLevelRef)
    /\ streamRef = 1
    /\ audioContextRef = 1
    /\ analyserRef = 1
    /\ sourceRef = 1
    /\ dataArrayRef = 1
    /\ webAnimationRef = 1
    /\ nextSession = 2
    /\ startCalls = 0
    /\ recordingRef = 0
    /\ recording = [r \in Recordings |-> "none"]
    /\ nextRecording = 1
    /\ allowsRecordingIOS = FALSE
    /\ stopUnloading = [r \in Recordings |-> 0]
    /\ stopCalls = 0
    /\ useMic = FALSE
    /\ effectDeps = <<FALSE, FALSE, "null">>
    /\ manualAudioLevel = (3 * Scale) \div 10
    /\ OrbMounted({"idle"})
    /\ stepRun = NoStepRun
    /\ Unrecorded

\* the status callback fed the metering whose normalisation is the sample
\* raw: normalized = (db + 50) / 40, so db = 40 * raw - 50
MeteringOf(raw) == (raw * 40) \div Scale - 50

\* the samples that are the normalisation of a whole number of dB
HasMetering(raw) == (raw * 40) % Scale = 0

\* status.metering of a recorder: digital silence, readings below, at and just
\* above the -42 dB gate, speech, and readings at and above the -10 dB of
\* full level
ConditionerMeterings == {-160, -46, -42, -41, -30, -10, 0}

\* a native recording in mid-session
NativeConditionerInit ==
    /\ isWeb = FALSE
    /\ micAllowed = TRUE
    /\ rawInputs = SilenceAndSound
    /\ meteringInputs = ConditionerMeterings
    /\ metering = NoMetering
    /\ now = 0
    /\ rawNormalized = 0
    /\ hasPermission = "true"
    /\ error = "null"
    /\ isRecording = TRUE
    /\ noiseFloorRef = InitialNoiseFloor
    /\ smoothedLevelRef \in ConditionerPrevs
    /\ audioLevel = SnapToZero(smoothedLevelRef)
    /\ streamRef = 0
    /\ audioContextRef = 0
    /\ analyserRef = 0
    /\ sourceRef = 0
    /\ dataArrayRef = 0
    /\ webAnimationRef = 0
    /\ session = [s \in Sessions |-> NoSession]
    /\ nextSession = 1
    /\ startCalls = 0
    /\ recordingRef = 1
    /\ recording = [r \in Recordings |-> IF r = 1 THEN "recording" ELSE "none"]
    /\ nextRecording = 2
    /\ allowsRecordingIOS = TRUE
    /\ stopUnloading = [r \in Recordings |-> 0]
    /\ stopCalls = 0
    /\ useMic = FALSE
    /\ effectDeps = <<FALSE, FALSE, "null">>
    /\ manualAudioLevel = (3 * Scale) \div 10
    /\ OrbMounted({"idle"})
    /\ stepRun = NoStepRun
    /\ Unrecorded

\* ------------------------------------------------ App, hook and orb together
\* App.tsx 69: the level App passes to ReactiveOrb
AudioLevelProp == IF useMic THEN audioLevel ELSE manualAudioLevel

\* the levels the slider is moved to
SliderLevels == {(3 * Scale) \div 10, Scale}

\* the level slider, disabled while the microphone is on: setManualAudioLevel
SetManualAudioLevel(level) ==
    /\ ~useMic
    /\ ~InFrame /\ ~InOrbFrame
    /\ level # manualAudioLevel
    /\ manualAudioLevel' = level
    /\ UNCHANGED <<envVars, now, captureVars, orbVars, stepRun, audioLevelRef, zoomRef, wobbleRef,
                   published, retarget>>

\* React commits a render of App with a new audioLevel prop, and the effect
\* on [audioLevel] runs
CommitAudioLevel ==
    /\ orbMounted
    /\ ~InFrame /\ ~InOrbFrame
    /\ audioLevelRef # AudioLevelProp
    /\ audioLevelRef' = AudioLevelProp
    /\ UNCHANGED <<envVars, now, captureVars, orbVars, stepRun, manualAudioLevel, zoomRef, wobbleRef,
                   published, retarget>>

\* the display of the browser refreshes: updateLevel and render are callbacks
\* of the same frame
DisplayFrame ==
    /\ isWeb
    /\ now < MaxFrames * FrameMs
    /\ ~InFrame /\ ~InOrbFrame
    /\ now' = now + FrameMs
    /\ rawNormalized' \in rawInputs
    /\ session' = [s \in Sessions |->
                     IF session[s].loop = "pending"
                     THEN [session[s] EXCEPT !.loop = "due"] ELSE session[s]]
    /\ gl' = [g \in Surfaces |->
                IF gl[g].loop = "pending" THEN [gl[g] EXCEPT !.loop = "due"] ELSE gl[g]]
    /\ UNCHANGED <<envVars, metering, stepRun, propVars, published, retarget, appVars, hookVars, webRefs,
                   nextSession, startCalls, nativeVars, orbMounted, orbStyle, orbState,
                   contextPending, glRef, programRef, animationRef, nextGl, startTimeRef,
                   targetStateRef, currentStateRef, targetsVisited>>

\* App on the web with the microphone granted, the published levels recorded
\* from the level the hook starts with
LevelInit ==
    /\ HookMounted({TRUE})
    /\ micAllowed
    /\ OrbMounted({"idle"})
    /\ stepRun = NoStepRun
    /\ published = <<audioLevel>>
    /\ retarget = NoHistory

\* ------------------------------------------------------ specifications
\* what happens inside the hook once it has been called
HookStep ==
    \/ MountPermissionWeb
    \/ AnimationFrame
    \/ \E s \in Sessions : UpdateLevel(s)
    \/ StartWebRejected
    \/ StartWebThrows
    \/ StartWebSucceeds
    \/ \E outcome \in {"granted", "denied", "throws"} : MountPermissionNative(outcome)
    \/ StartNativeModeRejected
    \/ StartNativeModeSet
    \/ \E r \in Recordings : StartNativePrepared(r)
    \/ \E r \in Recordings : StartNativePrepareRejected(r)
    \/ \E r \in Recordings : StartNativeSucceeds(r)
    \/ \E r \in Recordings : StartNativeStartRejected(r)
    \/ \E r \in Recordings : NativeStatusUpdate(r)
    \/ \E r \in Recordings : StopNativeUnloaded(r)
    \/ \E ok \in BOOLEAN : StopNativeModeSet(ok)

\* the hook under any caller
Next ==
    \/ HookStep
    \/ CallStartRecording
    \/ CallStopRecording

Spec == Init /\ [][Next]_vars

\* the hook under any caller, on a machine whose clock may jump forward
ClockNext ==
    \/ Next
    \/ StartWebSucceedsLate

ClockSpec == Init /\ [][ClockNext]_vars

\* the hook under any caller, with a capture that can fail in mid-session
InterruptNext ==
    \/ Next
    \/ \E r \in Recordings : NativeInterrupted(r)
    \/ \E s \in Sessions : TrackEnded(s)

InterruptSpec == Init /\ [][InterruptNext]_vars

\* the hook under App.tsx
AppNext ==
    \/ HookStep
    \/ ToggleMic
    \/ MicToggleEffect

AppSpec == Init /\ [][AppNext]_vars

\* ReactiveOrb under any parent
OrbNext ==
    \/ \E st \in {"idle", "user", "ai"} : SetState(st)
    \/ MountStateEffect
    \/ SetStyle
    \/ OnContextCreateFails
    \/ OnContextCreate
    \/ OrbAnimationFrame
    \/ \E g \in Surfaces : RenderTick(g)
    \/ OrbUnmount

OrbSpec == OrbInit /\ [][OrbNext]_vars

\* ReactiveOrb under a parent that changes every prop
PropsNext ==
    \/ \E st \in {"idle", "ai"} : SetState(st)
    \/ SetStyle
    \/ \E value \in ZoomValues : SetZoom(value)
    \/ \E value \in WobbleValues : SetWobble(value)
    \/ \E value \in LevelValues : SetAudioLevel(value)
    \/ OnContextCreate
    \/ OrbAnimationFrame
    \/ \E g \in Surfaces : RenderTick(g)

PropsSpec == PropsInit /\ [][PropsNext]_vars

\* ReactiveOrb switched between 'idle' and 'ai'
InterpolatorNext ==
    \/ \E st \in {"idle", "ai"} : SetState(st)
    \/ MountStateEffect
    \/ SetStyle
    \/ OnContextCreate
    \/ OrbAnimationFrame
    \/ \E g \in Surfaces : RenderTick(g)

InterpolatorSpec == InterpolatorInit /\ [][InterpolatorNext]_vars

\* the status callback of one native recording, reading after reading
NativeConditionerNext == \E r \in Recordings : NativeStatusUpdate(r)

NativeConditionerSpec == NativeConditionerInit /\ [][NativeConditionerNext]_vars

\* the smoothing fed a step up and a step down of the same magnitude
StepNext == FeedStepSample

StepSpec == StepInit /\ [][StepNext]_vars

\* App on the web: the switch, the slider, the hook, React commits and the orb
LevelNext ==
    \/ ToggleMic
    \/ MicToggleEffect
    \/ StartWebSucceeds
    \/ \E level \in SliderLevels : SetManualAudioLevel(level)
    \/ CommitAudioLevel
    \/ OnContextCreate
    \/ DisplayFrame
    \/ \E s \in Sessions : UpdateLevel(s)
    \/ \E g \in Surfaces : RenderTick(g)

LevelSpec == LevelInit /\ [][LevelNext]_vars

\* the conditioner of one web session in mid-session, sample after sample
ConditionerNext ==
    \/ AnimationFrame
    \/ \E s \in Sessions : UpdateLevel(s)
    \/ CallStopRecording

ConditionerSpec == ConditionerInit /\ [][ConditionerNext]_vars

\* ---------------------------------------------------------------- claims

\* C1: in every reachable state the retained smoothing state and the published
\* audioLevel are defined numbers within [0,1]
C1_LevelInUnitInterval ==
    /\ smoothedLevelRef \in 0..Scale
    /\ audioLevel \in 0..Scale

\* C2: in every reachable state the noise floor read by the gate lies in
\* [0, 0.9], so the gate's divisor 1 - floor is strictly positive
C2_NoiseFloorCapped == noiseFloorRef \in 0..((9 * Scale) \div 10)

\* C3: once the calibration window of a web capture session has elapsed, the
\* noise floor is 1.2 times the maximum of the samples of that window, whatever
\* is received afterwards
C3_FloorFrozenAfterWindow ==
    \A s \in Sessions :
       (/\ session[s].loop # "none"
        /\ now - session[s].calibrationStart >= CalibrationDuration)
       => noiseFloorRef = CalibratedFloor(session[s].calibrationSamples)

\* C4: there is never more than one acquired capture resource of a kind and
\* never more than one running capture callback loop
C4_AtMostOneSession ==
    /\ Cardinality({s \in Sessions : session[s].stream = "live"}) <= 1
    /\ Cardinality({s \in Sessions : session[s].ctx = "open"}) <= 1
    /\ Cardinality({s \in Sessions : session[s].loop # "none"}) <= 1
    /\ Cardinality({r \in Recordings : recording[r] \in {"prepared", "recording", "leaked"}}) <= 1

C6_NoDrawOnTornDownSurface ==
    \A g \in Surfaces : RenderDraws(g) => gl[g].surface = "live"

\* a step in which a startRecording call fails
StartFails ==
    \/ StartWebRejected
    \/ StartWebThrows
    \/ StartNativeNoPermission
    \/ StartNativeModeRejected
    \/ \E r \in Recordings : StartNativePrepareRejected(r) \/ StartNativeStartRejected(r)

\* the capture resources that are held
HeldResources ==
    [streams |-> {s \in Sessions : session[s].stream = "live"},
     contexts |-> {s \in Sessions : session[s].ctx = "open"},
     recorders |-> {r \in Recordings : recording[r] \in {"preparing", "prepared", "recording", "leaked"}}]

\* C7: a failing startRecording sets error and leaves isRecording, the level,
\* the smoothing state, the noise floor and every resource reference as they
\* were, and holds no resource it acquired
C7_FailedStartChangesNothing ==
    [][StartFails =>
         /\ error' # "null"
         /\ UNCHANGED <<isRecording, audioLevel, smoothedLevelRef, noiseFloorRef, webRefs,
                        recordingRef>>
         /\ \A k \in DOMAIN HeldResources : HeldResources'[k] \subseteq HeldResources[k]]_vars

\* a step in which a stopRecording call has done its reset
StopCompletes ==
    \/ StopWebRecording
    \/ StopNativeRecording /\ recordingRef = 0
    \/ \E r \in Recordings : StopNativeUnloaded(r)

\* the state a stopRecording call leaves behind
Stopped ==
    /\ ~isRecording /\ smoothedLevelRef = 0 /\ audioLevel = 0
    /\ streamRef = 0 /\ audioContextRef = 0 /\ analyserRef = 0 /\ sourceRef = 0
    /\ webAnimationRef = 0
    /\ recordingRef = 0

\* C8: after every stopRecording isRecording is false and the smoothing state
\* and the level are exactly 0, and a stopRecording called in the state a
\* stopRecording left behind changes nothing
C8_StopIdempotent ==
    [][/\ StopCompletes =>
            (~isRecording' /\ smoothedLevelRef' = 0 /\ audioLevel' = 0)
       /\ (StopRecording /\ Stopped) =>
            UNCHANGED <<hookVars, webVars, recordingRef, recording, allowsRecordingIOS>>]_vars

\* a stop has released a recording session, and nothing has been started since
C8_Witness ==
    /\ Stopped
    /\ \/ \E s \in Sessions : session[s].ctx = "closed" /\ session[s].stream = "stopped"
       \/ \E r \in Recordings : recording[r] = "unloaded" /\ stopCalls > 0

\* a step in which a startRecording call succeeds
StartSucceeds ==
    \/ StartWebSucceeds
    \/ \E r \in Recordings : StartNativeSucceeds(r)

\* C9: at the moment a start succeeds the retained smoothing state is 0
C9_SessionStartsClean == [][StartSucceeds => smoothedLevelRef = 0]_vars

\* session s has left its calibration window
Active(s) == now - session[s].calibrationStart >= CalibrationDuration

\* C10: once a session is in the Active phase it stays there while its
\* callback runs, and its callback neither takes a calibration sample nor
\* changes the noise floor
C10_CalibrationOneWay ==
    [][\A s \in Sessions :
         (session[s].loop = "due" /\ Active(s) /\ session'[s].loop = "pending")
         => /\ Active(s)'
            /\ session'[s].calibrationSamples = session[s].calibrationSamples
            /\ noiseFloorRef' = noiseFloorRef]_vars

\* a session has processed two samples in the Active phase
C10_Witness ==
    \E s \in Sessions :
       /\ session[s].loop = "pending"
       /\ now - session[s].calibrationStart >= CalibrationDuration + FrameMs

\* a step in which a calibration sample writes the noise floor
CalibrationWrite ==
    \/ StartWebSucceeds
    \/ \E s \in Sessions :
          /\ session[s].loop = "due" /\ ~Active(s)
          /\ UpdateLevel(s) /\ session'[s].loop = "pending"

\* C11: every write of the noise floor made by a calibration sample sets it to
\* a value greater than or equal to the value it held before the write
C11_FloorNeverDecreasesWhileCalibrating ==
    [][CalibrationWrite => noiseFloorRef' >= noiseFloorRef]_vars

\* C12: a session whose calibration window has elapsed with no sample observed
\* in it gates with the default noise floor 0.05
C12_DefaultFloorWhenNoSamples ==
    \A s \in Sessions :
       (/\ session[s].loop # "none"
        /\ Active(s)
        /\ session[s].calibrationSamples = {})
       => noiseFloorRef = InitialNoiseFloor

\* C13: the interpolated state value emitted by a tick lies between the least
\* and the greatest target visited so far, hence within [0,2]
C13_ValueWithinVisitedTargets ==
    animationRef # 0 =>
       /\ \E t \in targetsVisited : t <= currentStateRef
       /\ \E t \in targetsVisited : currentStateRef <= t
       /\ currentStateRef \in 0..(2 * Scale)

Abs(x) == IF x < 0 THEN -x ELSE x

\* a step in which a render tick interpolates
InterpolationTick ==
    \/ OnContextCreate
    \/ \E g \in Surfaces : RenderDraws(g) /\ RenderTick(g)

Between(a, x, b) ==
    /\ ~IsNaN(a) /\ ~IsNaN(x) /\ ~IsNaN(b)
    /\ (a <= x /\ x <= b) \/ (b <= x /\ x <= a)

\* session s runs updateLevel on a sample taken after its calibration window
ActiveSample(s) ==
    /\ session[s].loop = "due" /\ Active(s)
    /\ UpdateLevel(s) /\ session'[s].loop = "pending"

\* C15: a sample above the noise floor moves the smoothing state towards the
\* fixed point min(1, gain * gated^exponent) of that input and not past it
C15_SmoothingApproachesFixedPoint ==
    [][/\ \A s \in Sessions :
            (ActiveSample(s) /\ rawNormalized > noiseFloorRef)
            => Between(smoothedLevelRef, smoothedLevelRef',
                       WebCurve(NoiseGate(rawNormalized, noiseFloorRef)))
       /\ \A r \in Recordings : \A db \in MeteringInputs :
            (/\ NativeStatusUpdate(r) /\ db > -42
             /\ smoothedLevelRef' = NativeSmoothed(db, smoothedLevelRef))
            => Between(smoothedLevelRef, smoothedLevelRef', NativeCurved(db))]_vars

\* C16: the smoothing covers 90% of a step up in strictly fewer samples than
\* it covers 90% of a step down of the same magnitude
C16_AttackFasterThanRelease ==
    /\ stepRun.downCoveredAt # 0 =>
          (stepRun.upCoveredAt # 0 /\ stepRun.upCoveredAt < stepRun.downCoveredAt)
    /\ stepRun.samples = MaxSamples => stepRun.downCoveredAt # 0

\* both steps have covered 90%
C16_Witness == stepRun.upCoveredAt # 0 /\ stepRun.downCoveredAt # 0

\* C17: after calibration a sample no louder than the loudest calibration
\* sample gates to exactly 0 and raises neither the smoothing state nor the
\* published level
C17_AmbientGatesToZero ==
    [][\A s \in Sessions :
         (ActiveSample(s) /\ rawNormalized <= MaxOf(session[s].calibrationSamples))
         => /\ NoiseGate(rawNormalized, noiseFloorRef) = 0
            /\ ~IsNaN(smoothedLevelRef') /\ smoothedLevelRef' <= smoothedLevelRef
            /\ ~IsNaN(audioLevel') /\ audioLevel' <= audioLevel]_vars

\* the microphone is refused: getUserMedia rejects, or the permission request
\* on mount was not granted
PermissionDenied == ~micAllowed \/ hasPermission = "false"

\* a step in which the hook is refused the microphone
DenialObserved ==
    \/ MountPermissionWeb
    \/ \E outcome \in {"denied", "throws"} : MountPermissionNative(outcome)
    \/ StartWebRejected
    \/ StartNativeNoPermission

\* C18: while permission is denied the published level is 0, isRecording is
\* false and nothing is acquired; every refusal sets error; and an acquisition
\* attempt begins only in a step that is a call of startRecording
C18_DeniedStaysSilent ==
    /\ [](PermissionDenied =>
            /\ audioLevel = 0 /\ smoothedLevelRef = 0 /\ ~isRecording
            /\ \A s \in Sessions : session[s] = NoSession
            /\ \A r \in Recordings : recording[r] \in {"none", "unloaded"}
            /\ streamRef = 0 /\ recordingRef = 0)
    /\ [][/\ (DenialObserved /\ PermissionDenied') => error' # "null"
          /\ (PermissionDenied /\ startCalls' > startCalls) => StartRecording]_vars

\* a start was called while permission is denied, and the refusal is reported
C18_Witness ==
    /\ PermissionDenied
    /\ error \in {"No microphone permission", "Failed"}

\* C19: once a capture has failed in mid-session its resource is released,
\* the smoothing state and the level are 0, isRecording is false and error
\* is set
C19_InterruptionStops ==
    /\ \A r \in Recordings :
          recording[r] = "interrupted" =>
             /\ ~isRecording /\ audioLevel = 0 /\ smoothedLevelRef = 0
             /\ error # "null"
    /\ \A s \in Sessions :
          session[s].stream = "ended" =>
             /\ ~isRecording /\ audioLevel = 0 /\ smoothedLevelRef = 0
             /\ error # "null"
             /\ session[s].ctx = "closed" /\ session[s].loop = "none"

\* the context of the current GLView was created and its program was not
\* linked
RendererInitFailed == glRef # 0 /\ programRef # glRef /\ gl[glRef].surface = "live"

\* C20: when shader compilation or linking failed for the current surface, no
\* render tick draws
C20_NoDrawAfterInitFailure ==
    RendererInitFailed => \A g \in Surfaces : ~RenderDraws(g)

\* C21: the web conditioner and the native conditioner, given the same
\* previous smoothing state and the same normalised raw sample, leave the
\* same smoothing state and publish the same level
C21_ProvidersConditionAlike ==
    [][\A s \in Sessions :
         (ActiveSample(s) /\ HasMetering(rawNormalized))
         => LET native == NativeSmoothed(MeteringOf(rawNormalized), smoothedLevelRef)
            IN  /\ smoothedLevelRef' = native
                /\ audioLevel' = SnapToZero(native)]_vars

\* a step in which render writes the level uniform
LevelUniformWritten ==
    \/ OnContextCreate
    \/ \E g \in Surfaces : RenderDraws(g) /\ RenderTick(g)

\* C22: the level a render tick writes to the uniform is the level the
\* conditioner or stop published last, or the one published just before it
C22_LevelAtMostOneTickStale ==
    [][LevelUniformWritten
       => \E i \in DOMAIN published : audioLevelRef = published[i]]_vars

\* clamp(x, 0, 1)
Clamp01(x) == Max2(0, Min2(Scale, x))

\* C23: for a floor of at most 0.9 the gate of a sample is
\* clamp((raw - floor) / (1 - floor), 0, 1): it lies in [0, 1], is 0 exactly
\* when the sample is not above the floor, and 1 exactly when the sample is 1
C23_GateRescalesAboveFloor ==
    [][\A s \in Sessions :
         (ActiveSample(s) /\ noiseFloorRef <= (9 * Scale) \div 10)
         => LET gated == NoiseGate(rawNormalized, noiseFloorRef)
            IN  /\ gated = Clamp01(RoundDiv((rawNormalized - noiseFloorRef) * Scale,
                                            Scale - noiseFloorRef))
                /\ 0 <= gated /\ gated <= Scale
                /\ gated = 0 <=> rawNormalized <= noiseFloorRef
                /\ gated = Scale <=> rawNormalized = Scale]_vars

\* a sample above a floor of 0.9 has been gated and has raised the level
C23_Witness ==
    /\ noiseFloorRef = (9 * Scale) \div 10
    /\ rawNormalized > noiseFloorRef
    /\ now > 0 /\ ~InFrame
    /\ smoothedLevelRef > 0
    /\ \E s \in Sessions : session[s].loop = "pending"

\* next is prev + (curved - prev) * k up to rounding, with k the attack 0.3
\* when curved is above prev and the release 0.08 otherwise, and lies between
\* prev and curved
SmoothingStep(prev, curved, next) ==
    /\ Between(prev, next, curved)
    /\ LET k == IF curved > prev THEN 30 ELSE 8
       IN  Abs(100 * (next - prev) - k * (curved - prev)) <= 50

\* C24: every conditioned sample, web or native, moves the smoothing state by
\* the attack or release fraction of its distance to the curved value, and
\* never outside the interval between the two
C24_SmoothingStepBetween ==
    [][/\ \A s \in Sessions :
            ActiveSample(s)
            => SmoothingStep(smoothedLevelRef,
                             WebCurve(NoiseGate(rawNormalized, noiseFloorRef)),
                             smoothedLevelRef')
       /\ \A r \in Recordings :
            NativeStatusUpdate(r)
            => \E db \in MeteringInputs :
                 SmoothingStep(smoothedLevelRef, NativeCurved(db), smoothedLevelRef')]_vars

\* a step that passes a conditioned level to setAudioLevel
ConditionedSample ==
    \/ \E s \in Sessions : ActiveSample(s)
    \/ \E r \in Recordings : NativeStatusUpdate(r)

C26_ReleaseDecayBelowFloor ==
    [][\A s \in Sessions :
         (/\ ActiveSample(s)
          /\ audioLevel * 100 >= 2 * Scale
          /\ rawNormalized <= noiseFloorRef)
         => /\ ~IsNaN(smoothedLevelRef')
            /\ Abs(100 * smoothedLevelRef' - 92 * smoothedLevelRef) <= 50
            /\ smoothedLevelRef' * 100 >= 2 * Scale => audioLevel' = smoothedLevelRef'
            /\ smoothedLevelRef' * 100 < 2 * Scale => audioLevel' = 0]_vars

\* C27: a sample taken in the calibration window changes the calibration
\* samples and the floor and nothing else of the hook: the smoothing state and
\* the published level stay as they were
C27_CalibrationLeavesLevelAlone ==
    [][/\ CalibrationWrite
          => smoothedLevelRef' = smoothedLevelRef /\ audioLevel' = audioLevel
       /\ \A s \in Sessions :
            (/\ session[s].loop = "due" /\ ~Active(s)
             /\ UpdateLevel(s) /\ session'[s].loop = "pending")
            => /\ UNCHANGED <<hasPermission, error, isRecording>>
               /\ \A t \in Sessions \ {s} : session'[t] = session[t]
               /\ rawNormalized \in session'[s].calibrationSamples]_vars

\* a sample louder than silence has been taken in a calibration window
C27_Witness ==
    /\ ~InFrame
    /\ rawNormalized > 0
    /\ \E s \in Sessions :
         /\ session[s].loop = "pending" /\ ~Active(s)
         /\ now > session[s].calibrationStart
         /\ rawNormalized \in session[s].calibrationSamples
         /\ noiseFloorRef = CalibratedFloor(session[s].calibrationSamples)

\* a step in which a prop other than state changes, or the GLView is replaced
PropOrSurfaceChange ==
    \/ SetStyle
    \/ \E value \in ZoomValues : SetZoom(value)
    \/ \E value \in WobbleValues : SetWobble(value)
    \/ \E value \in LevelValues : SetAudioLevel(value)

\* C28: only a render tick changes the interpolated value, by one step of
\* 0.08 of its distance to the target; a state change writes the target and
\* not the value; a new zoom, wobble, audio level or GL surface writes neither
C28_OnlyTicksMoveValue ==
    [][/\ currentStateRef' # currentStateRef => InterpolationTick
       /\ InterpolationTick
          => /\ Abs(100 * (currentStateRef' - currentStateRef)
                      - 8 * (targetStateRef - currentStateRef)) <= 50
             /\ targetStateRef' = targetStateRef
       /\ \A st \in {"idle", "user", "ai"} :
            SetState(st) => /\ targetStateRef' = StateOrdinal(st)
                            /\ currentStateRef' = currentStateRef
       /\ PropOrSurfaceChange => UNCHANGED <<targetStateRef, currentStateRef>>]_vars

\* every prop has changed and a second surface renders while the value is on
\* its way to the target
C28_Witness ==
    /\ 0 < currentStateRef /\ currentStateRef < targetStateRef
    /\ zoomRef # Scale
    /\ wobbleRef # (3 * Scale) \div 10
    /\ audioLevelRef # manualAudioLevel
    /\ orbStyle = "siri"
    /\ animationRef = 2

\* the surfaces whose render callback is requested and has not run yet
ScheduledRenders == {g \in Surfaces : gl[g].loop \in {"pending", "due"}}

\* C29: at most one render callback is scheduled at any time, and a tick that
\* runs leaves exactly one scheduled, so the value is interpolated at most once
\* per display refresh
C29_AtMostOneRenderScheduled ==
    /\ [](Cardinality(ScheduledRenders) <= 1)
    /\ [][(\E g \in Surfaces : RenderDraws(g) /\ RenderTick(g))
          => Cardinality(ScheduledRenders') = 1]_vars

\* 2 - 2 * 0.92^N for N = 0 .. 40, rounded to 1/600
ClosedFormTable ==
    <<0, 96, 184, 266, 340, 409, 472, 531, 584, 633, 679, 720, 759, 794, 827, 856, 884, 909,
      932, 954, 974, 992, 1008, 1024, 1038, 1051, 1063, 1074, 1084, 1093, 1102, 1110, 1117,
      1123, 1130, 1135, 1140, 1145, 1150, 1154, 1157>>

\* C30: when the target is set to 2 while the value is 0 and is then held, the
\* value after N ticks is 2 - 2 * 0.92^N, to within 1/600
C30_ClosedFormAfterTicks ==
    (/\ targetStateRef = 2 * Scale
     /\ retarget[1] = 0
     /\ retarget[2] < Len(ClosedFormTable))
    => Abs(currentStateRef - ClosedFormTable[retarget[2] + 1]) <= 1

\* the target has been 2 for four ticks that started from 0
C30_Witness ==
    /\ targetStateRef = 2 * Scale
    /\ retarget = <<0, MaxFrames + 1>>
    /\ currentStateRef > Scale \div 2

C32_ElapsedFromSessionStart ==
    [][\A g \in Surfaces :
         (RenderDraws(g) /\ RenderTick(g))
         => /\ gl'[g].elapsed >= 0
            /\ gl'[g].elapsed >= gl[g].elapsed]_vars

\* C33: after a conditioned sample and after a stop the published level is 0
\* or the smoothing state itself, and it is 0 beside a smoothing state other
\* than 0 only if that state is below 0.02
C33_LevelIsSmoothingStateOrZero ==
    [][(ConditionedSample \/ StopCompletes)
       => /\ audioLevel' = 0 \/ audioLevel' = smoothedLevelRef'
          /\ (audioLevel' = 0 /\ smoothedLevelRef' # 0)
             => (~IsNaN(smoothedLevelRef') /\ smoothedLevelRef' * 100 < 2 * Scale)]_vars

\* a sample has been snapped to 0 beside a smoothing state above 0
C33_Witness ==
    /\ isRecording
    /\ audioLevel = 0
    /\ 0 < smoothedLevelRef
    /\ now > 0

\* a step that conditions a sample at or below the noise floor (web) or a
\* reading at or below the -42 dB gate (native)
QuietSample ==
    \/ \E s \in Sessions : ActiveSample(s) /\ rawNormalized <= noiseFloorRef
    \/ \E r \in Recordings : NativeStatusUpdate(r) /\ metering' <= -42

\* a < b as numbers
Below(a, b) == ~IsNaN(a) /\ ~IsNaN(b) /\ a < b

\* C34: while the input is quiet the published level goes to 0 and stays
\* there: every quiet sample publishes 0 or lowers the smoothing state, and a
\* quiet sample after a published 0 publishes 0 again
C34_QuietInputReachesZero ==
    [][QuietSample
       => /\ audioLevel' = 0 \/ Below(smoothedLevelRef', smoothedLevelRef)
          /\ audioLevel = 0 => audioLevel' = 0]_vars

\* no startRecording and no stopRecording call is between its first await and
\* its return
NoCallInFlight ==
    /\ startCalls = 0
    /\ StopsInFlight = 0
    /\ \A r \in Recordings : recording[r] \notin {"preparing", "prepared"}

\* a web stream, an audio context or a native recorder is held
ResourceHeld == \E k \in DOMAIN HeldResources : HeldResources[k] # {}

\* C35: whenever no start or stop call is in flight, isRecording is true
\* exactly when a capture resource is held
C35_RecordingMeansResourceHeld ==
    NoCallInFlight => (isRecording <=> ResourceHeld)

\* the mic-toggle effect has run for the current useMic and isRecording, and
\* every call it made has returned
ToggleSettled == effectDeps = CurrentDeps /\ NoCallInFlight

\* the number of capture sessions that hold a resource
HeldSessions ==
    Cardinality(HeldResources.streams \cup HeldResources.contexts)
    + Cardinality(HeldResources.recorders)

\* C36: once the mic toggle has settled, useMic false leaves isRecording
\* false, the level 0 and no capture resource held, and useMic true with
\* isRecording true leaves exactly one session holding resources
C36_MicToggleConverges ==
    ToggleSettled
    => /\ ~useMic => (~isRecording /\ audioLevel = 0 /\ ~ResourceHeld)
       /\ (useMic /\ isRecording) => HeldSessions = 1

====
